---- MODULE Spec2Model ----
(***************************************************************************)
(* A model of validate_adf.py: the loader of the pipeline/ and trigger/    *)
(* directories, the two parameter checkers and the report printed by main. *)
(*                                                                         *)
(* A Python dict is modelled as a sequence of [key, value] records in      *)
(* insertion order (dict iteration order), except the parameters supplied  *)
(* at a call site, whose order the program never looks at: they are a      *)
(* function from the supplied names to the supplied values.                *)
(***************************************************************************)
EXTENDS Integers, Sequences, FiniteSets, TLC

VARIABLES
    pc,              \* position of main
    pipelineDir,     \* the directory <adf_dir>/pipeline on disk
    triggerDir,      \* the directory <adf_dir>/trigger on disk
    pipelines,       \* main's pipelines table
    triggers,        \* main's triggers table
    idx,             \* position of main's loop over pipelines.items()
    trigger_issues,  \* main's trigger_issues list
    all_issues,      \* main's all_issues list
    output           \* what has been printed on standard output

vars == <<pc, pipelineDir, triggerDir, pipelines, triggers, idx,
          trigger_issues, all_issues, output>>

(***************************************************************************)
(* Bounds of the model.                                                    *)
(***************************************************************************)
MaxPipelineFiles == 2
MaxTriggerFiles == 1
MaxParams == 2
MaxActivities == 2
MaxBindings == 2

(***************************************************************************)
(* Python dict operations.                                                 *)
(***************************************************************************)
DictKeys(d) == {d[i].key : i \in 1..Len(d)}

DictHas(d, k) == \E i \in 1..Len(d) : d[i].key = k

DictGet(d, k) == d[CHOOSE i \in 1..Len(d) : d[i].key = k].value

\* d[k] = v: an existing key keeps its position, a new key goes last.
DictSet(d, k, v) ==
    IF DictHas(d, k)
    THEN [i \in 1..Len(d) |-> IF d[i].key = k THEN [key |-> k, value |-> v] ELSE d[i]]
    ELSE Append(d, [key |-> k, value |-> v])

(***************************************************************************)
(* JSON values and Python's str() of them.                                 *)
(***************************************************************************)
JsonInt(s) == [t |-> "int", v |-> s]
JsonStr(s) == [t |-> "str", v |-> s]
JsonBool(s) == [t |-> "bool", v |-> s]
JsonNull == [t |-> "null", v |-> "null"]

str(val) ==
    CASE val.t = "bool" -> (IF val.v = "true" THEN "True" ELSE "False")
      [] val.t = "null" -> "None"
      [] OTHER -> val.v

(***************************************************************************)
(* load_resources                                                          *)
(***************************************************************************)
PipelineType == "Microsoft.DataFactory/factories/pipelines"
TriggerType == "Microsoft.DataFactory/factories/triggers"

\* One iteration of the loop over os.listdir(directory). A file is
\*   [json, content, hasType, type, hasName, name, hasProperties, properties]
\* where json says that the file name ends with ".json" and content is
\* "invalid" (json.load raises JSONDecodeError), "object" (a JSON object) or
\* "other" (valid JSON that is not an object: file_content.get raises
\* AttributeError, which no except clause catches).
LoadFile(resources, file, expected_type) ==
    IF ~file.json
    THEN [raised |-> FALSE, resources |-> resources]
    ELSE IF file.content = "invalid"
    THEN [raised |-> FALSE, resources |-> resources]
    ELSE IF file.content # "object"
    THEN [raised |-> TRUE, resources |-> resources]
    ELSE IF (IF file.hasType THEN file.type ELSE expected_type) = expected_type
    THEN IF file.hasProperties /\ file.hasName
         THEN [raised |-> FALSE,
               resources |-> DictSet(resources, file.name, file.properties)]
         ELSE [raised |-> FALSE, resources |-> resources]
    ELSE [raised |-> FALSE, resources |-> resources]

RECURSIVE LoadFiles(_, _, _)
LoadFiles(resources, files, expected_type) ==
    IF files = <<>>
    THEN [raised |-> FALSE, resources |-> resources]
    ELSE LET r == LoadFile(resources, Head(files), expected_type)
         IN  IF r.raised THEN r
             ELSE LoadFiles(r.resources, Tail(files), expected_type)

\* A slip: no os.path.exists test, os.listdir raises FileNotFoundError.
load_resources_listdir(directory, expected_type) ==
    IF ~directory.exists
    THEN [raised |-> TRUE, resources |-> <<>>]
    ELSE LoadFiles(<<>>, directory.files, expected_type)

load_resources(directory, expected_type) ==
    IF ~directory.exists
    THEN [raised |-> FALSE, resources |-> <<>>]
    ELSE LoadFiles(<<>>, directory.files, expected_type)

(***************************************************************************)
(* find_missing_and_redundant_params_in_activities                         *)
(*                                                                         *)
(* A pipeline is [hasParameters, parameters, hasActivities, activities],   *)
(* parameters a sequence of [name, hasDefault, defaultValue] in the order  *)
(* of declaration; an activity is                                          *)
(*   [name, type, referenceName, hasParameters, parameters].               *)
(* An issue message is [text, pipeline, params]: the fixed text of the     *)
(* f-string and the two values it interpolates.                            *)
(***************************************************************************)
NoName == ""

ParamNames(params) == [i \in 1..Len(params) |-> params[i].name]

pipeline_get_parameters(pipeline) ==
    IF pipeline.hasParameters THEN pipeline.parameters ELSE <<>>

pipeline_get_activities(pipeline) ==
    IF pipeline.hasActivities THEN pipeline.activities ELSE <<>>

site_get_parameters(site) ==
    IF site.hasParameters THEN site.parameters ELSE <<>>

\* A slip: every required parameter is reported, supplied or not.
activity_missing_params_unsupplied(child_parameters, provided_parameters) ==
    ParamNames(SelectSeq(child_parameters, LAMBDA details : ~details.hasDefault))

activity_missing_params(child_parameters, provided_parameters) ==
    ParamNames(SelectSeq(child_parameters,
        LAMBDA details : ~details.hasDefault
                         /\ details.name \notin DOMAIN provided_parameters))

activity_redundant_params(child_parameters, provided_parameters) ==
    ParamNames(SelectSeq(child_parameters,
        LAMBDA details : /\ details.hasDefault
                         /\ details.name \in DOMAIN provided_parameters
                         /\ str(provided_parameters[details.name])
                              = str(details.defaultValue)))

ActivityIssue(activity, text, pipeline, params) ==
    [activity |-> activity.name,
     issue |-> [text |-> text, pipeline |-> pipeline, params |-> params]]

\* The body of the loop over execute_activities, for one activity.
CheckActivity(activity, child_pipelines) ==
    LET child_pipeline_name == activity.referenceName
    IN  IF ~DictHas(child_pipelines, child_pipeline_name)
        THEN <<ActivityIssue(activity, "Child pipeline not found",
                             child_pipeline_name, <<>>)>>
        ELSE LET child_pipeline == DictGet(child_pipelines, child_pipeline_name)
                 child_parameters == pipeline_get_parameters(child_pipeline)
                 provided_parameters == site_get_parameters(activity)
                 missing_params ==
                     activity_missing_params(child_parameters, provided_parameters)
                 redundant_params ==
                     activity_redundant_params(child_parameters, provided_parameters)
             IN  (IF missing_params # <<>>
                  THEN <<ActivityIssue(activity, "Missing required parameters",
                                       NoName, missing_params)>>
                  ELSE <<>>)
                 \o
                 (IF redundant_params # <<>>
                  THEN <<ActivityIssue(activity,
                                       "Redundant parameters matching default values",
                                       NoName, redundant_params)>>
                  ELSE <<>>)

RECURSIVE CheckActivities(_, _)
\* A slip: "break" for "continue", the loop ends at the first unresolved
\* reference.
CheckActivities_break(execute_activities, child_pipelines) ==
    IF execute_activities = <<>> THEN <<>>
    ELSE CheckActivity(Head(execute_activities), child_pipelines)
         \o (IF DictHas(child_pipelines, Head(execute_activities).referenceName)
             THEN CheckActivities(Tail(execute_activities), child_pipelines)
             ELSE <<>>)

\* A slip: the issues of an activity are put in front of the list.
CheckActivities_front(execute_activities, child_pipelines) ==
    IF execute_activities = <<>> THEN <<>>
    ELSE CheckActivities(Tail(execute_activities), child_pipelines)
         \o CheckActivity(Head(execute_activities), child_pipelines)

CheckActivities(execute_activities, child_pipelines) ==
    IF execute_activities = <<>> THEN <<>>
    ELSE CheckActivity(Head(execute_activities), child_pipelines)
         \o CheckActivities(Tail(execute_activities), child_pipelines)

find_missing_and_redundant_params_in_activities(parent_pipeline, child_pipelines) ==
    LET execute_activities ==
            SelectSeq(pipeline_get_activities(parent_pipeline),
                      LAMBDA activity : activity.type = "ExecutePipeline")
    IN  CheckActivities(execute_activities, child_pipelines)

(***************************************************************************)
(* find_missing_and_redundant_params_in_triggers                           *)
(*                                                                         *)
(* A trigger is [hasPipelines, pipelines], pipelines a sequence of         *)
(* bindings [referenceName, hasParameters, parameters].                    *)
(***************************************************************************)
trigger_get_pipelines(trigger) ==
    IF trigger.hasPipelines THEN trigger.pipelines ELSE <<>>

trigger_missing_params(pipeline_parameters, provided_parameters) ==
    ParamNames(SelectSeq(pipeline_parameters,
        LAMBDA details : ~details.hasDefault
                         /\ details.name \notin DOMAIN provided_parameters))

\* A slip: the supplied value is compared with the default as a value, not
\* in its string form.
trigger_redundant_params_typed(pipeline_parameters, provided_parameters) ==
    ParamNames(SelectSeq(pipeline_parameters,
        LAMBDA details : /\ details.hasDefault
                         /\ details.name \in DOMAIN provided_parameters
                         /\ provided_parameters[details.name] = details.defaultValue))

trigger_redundant_params(pipeline_parameters, provided_parameters) ==
    ParamNames(SelectSeq(pipeline_parameters,
        LAMBDA details : /\ details.hasDefault
                         /\ details.name \in DOMAIN provided_parameters
                         /\ str(provided_parameters[details.name])
                              = str(details.defaultValue)))

TriggerIssue(trigger_name, text, pipeline, params) ==
    [trigger |-> trigger_name,
     issue |-> [text |-> text, pipeline |-> pipeline, params |-> params]]

\* The body of the loop over trigger.get("pipelines", []), for one binding.
CheckBinding(trigger_name, pipeline_reference, pipelineTable) ==
    LET pipeline_name == pipeline_reference.referenceName
        provided_parameters == site_get_parameters(pipeline_reference)
    IN  IF ~DictHas(pipelineTable, pipeline_name)
        THEN <<TriggerIssue(trigger_name, "Pipeline not found for trigger",
                            pipeline_name, <<>>)>>
        ELSE LET pipeline == DictGet(pipelineTable, pipeline_name)
                 pipeline_parameters == pipeline_get_parameters(pipeline)
                 missing_params ==
                     trigger_missing_params(pipeline_parameters, provided_parameters)
                 redundant_params ==
                     trigger_redundant_params(pipeline_parameters, provided_parameters)
             IN  (IF missing_params # <<>>
                  THEN <<TriggerIssue(trigger_name,
                                      "Missing required parameters for pipeline",
                                      pipeline_name, missing_params)>>
                  ELSE <<>>)
                 \o
                 (IF redundant_params # <<>>
                  THEN <<TriggerIssue(trigger_name,
                            "Redundant parameters matching default values for pipeline",
                            pipeline_name, redundant_params)>>
                  ELSE <<>>)

RECURSIVE CheckBindings(_, _, _)
CheckBindings(trigger_name, bindings, pipelineTable) ==
    IF bindings = <<>> THEN <<>>
    ELSE CheckBinding(trigger_name, Head(bindings), pipelineTable)
         \o CheckBindings(trigger_name, Tail(bindings), pipelineTable)

RECURSIVE CheckTriggers(_, _)
CheckTriggers(triggerTable, pipelineTable) ==
    IF triggerTable = <<>> THEN <<>>
    ELSE CheckBindings(Head(triggerTable).key,
                       trigger_get_pipelines(Head(triggerTable).value),
                       pipelineTable)
         \o CheckTriggers(Tail(triggerTable), pipelineTable)

find_missing_and_redundant_params_in_triggers(triggerTable, pipelineTable) ==
    CheckTriggers(triggerTable, pipelineTable)

(***************************************************************************)
(* main                                                                    *)
(***************************************************************************)
load_pipelines_and_triggers(pipelines_dir, triggers_dir) ==
    LET p == load_resources(pipelines_dir, PipelineType)
    IN  IF p.raised
        THEN [raised |-> TRUE, pipelines |-> <<>>, triggers |-> <<>>]
        ELSE LET t == load_resources(triggers_dir, TriggerType)
             IN  IF t.raised
                 THEN [raised |-> TRUE, pipelines |-> <<>>, triggers |-> <<>>]
                 ELSE [raised |-> FALSE, pipelines |-> p.resources,
                       triggers |-> t.resources]

IssueBlock(type, name, issues) == [type |-> type, name |-> name, issues |-> issues]

\* A printed line: the fixed text of the print call and what it interpolates.
Line(text, type, name, detail) ==
    [text |-> text, type |-> type, name |-> name, detail |-> detail]

CleanLine == Line("No validation issues found.", NoName, NoName, <<>>)
FoundLine == Line("Validation issues found:", NoName, NoName, <<>>)
HeaderLine(block) == Line("\n{type} '{name}':", block.type, block.name, <<>>)
DetailLine(detail) == Line("  {detail}", NoName, NoName, <<detail>>)

PrintBlock(block) ==
    <<HeaderLine(block)>>
    \o [i \in 1..Len(block.issues) |-> DetailLine(block.issues[i])]

RECURSIVE PrintBlocks(_)
PrintBlocks(blocks) ==
    IF blocks = <<>> THEN <<>>
    ELSE PrintBlock(Head(blocks)) \o PrintBlocks(Tail(blocks))

\* pipelines, triggers = load_pipelines_and_triggers(adf_dir); all_issues = []
\* An exception that load_resources does not catch ends the process with a
\* traceback and a non-zero exit status: pc = "raised".
Load ==
    /\ pc = "load"
    /\ LET r == load_pipelines_and_triggers(pipelineDir, triggerDir)
       IN  IF r.raised
           THEN /\ pc' = "raised"
                /\ UNCHANGED <<pipelines, triggers, idx>>
           ELSE /\ pc' = "validate_pipelines"
                /\ pipelines' = r.pipelines
                /\ triggers' = r.triggers
                /\ idx' = 1
    /\ all_issues' = <<>>
    /\ UNCHANGED <<pipelineDir, triggerDir, trigger_issues, output>>

\* A slip: the checker follows the reference it has just resolved and goes on
\* from the pipeline it names.
ValidatePipeline_follow ==
    /\ pc = "validate_pipelines"
    /\ idx <= Len(pipelines)
    /\ LET name == pipelines[idx].key
           pipeline == pipelines[idx].value
           issues == find_missing_and_redundant_params_in_activities(pipeline, pipelines)
           called == {i \in 1..Len(pipelines) :
                        \E a \in 1..Len(pipeline_get_activities(pipeline)) :
                            /\ pipeline_get_activities(pipeline)[a].type = "ExecutePipeline"
                            /\ pipeline_get_activities(pipeline)[a].referenceName
                                 = pipelines[i].key}
       IN  /\ all_issues' = IF issues # <<>>
                            THEN Append(all_issues, IssueBlock("Pipeline", name, issues))
                            ELSE all_issues
           /\ idx' = IF called # {} THEN CHOOSE i \in called : TRUE ELSE idx + 1
    /\ UNCHANGED <<pc, pipelineDir, triggerDir, pipelines, triggers,
                   trigger_issues, output>>

\* One iteration of "for name, pipeline in pipelines.items()".
ValidatePipeline ==
    /\ pc = "validate_pipelines"
    /\ idx <= Len(pipelines)
    /\ LET name == pipelines[idx].key
           pipeline == pipelines[idx].value
           issues == find_missing_and_redundant_params_in_activities(pipeline, pipelines)
       IN  all_issues' = IF issues # <<>>
                         THEN Append(all_issues, IssueBlock("Pipeline", name, issues))
                         ELSE all_issues
    /\ idx' = idx + 1
    /\ UNCHANGED <<pc, pipelineDir, triggerDir, pipelines, triggers,
                   trigger_issues, output>>

\* A slip: the trigger issues are computed and never added to all_issues.
ValidateTriggers_dropped ==
    /\ pc = "validate_pipelines"
    /\ idx > Len(pipelines)
    /\ trigger_issues' = find_missing_and_redundant_params_in_triggers(triggers, pipelines)
    /\ pc' = "print"
    /\ UNCHANGED <<pipelineDir, triggerDir, pipelines, triggers, idx, all_issues,
                   output>>

\* The loop over the pipelines is over: validate the triggers.
ValidateTriggers ==
    /\ pc = "validate_pipelines"
    /\ idx > Len(pipelines)
    /\ LET found == find_missing_and_redundant_params_in_triggers(triggers, pipelines)
       IN  /\ trigger_issues' = found
           /\ all_issues' =
                all_issues \o [i \in 1..Len(found) |->
                    IssueBlock("Trigger", found[i].trigger, <<found[i].issue>>)]
    /\ pc' = "print"
    /\ UNCHANGED <<pipelineDir, triggerDir, pipelines, triggers, idx, output>>

PrintResults ==
    /\ pc = "print"
    /\ output' = IF all_issues # <<>>
                 THEN <<FoundLine>> \o PrintBlocks(all_issues)
                 ELSE <<CleanLine>>
    /\ pc' = "done"
    /\ UNCHANGED <<pipelineDir, triggerDir, pipelines, triggers, idx,
                   trigger_issues, all_issues>>

(***************************************************************************)
(* The inputs: what the two directories may hold.                          *)
(***************************************************************************)
NoValue == JsonNull
Required(name) == [name |-> name, hasDefault |-> FALSE, defaultValue |-> NoValue]
Optional(name, default) == [name |-> name, hasDefault |-> TRUE, defaultValue |-> default]

Pipeline(hasParameters, parameters, hasActivities, activities) ==
    [hasParameters |-> hasParameters, parameters |-> parameters,
     hasActivities |-> hasActivities, activities |-> activities]

ExecutePipeline(name, referenceName, hasParameters, parameters) ==
    [name |-> name, type |-> "ExecutePipeline", referenceName |-> referenceName,
     hasParameters |-> hasParameters, parameters |-> parameters]

OtherActivity(name, type) ==
    [name |-> name, type |-> type, referenceName |-> NoName,
     hasParameters |-> FALSE, parameters |-> <<>>]

Trigger(hasPipelines, bindings) == [hasPipelines |-> hasPipelines, pipelines |-> bindings]

Binding(referenceName, hasParameters, parameters) ==
    [referenceName |-> referenceName, hasParameters |-> hasParameters,
     parameters |-> parameters]

NotJsonFile(properties) ==
    [json |-> FALSE, content |-> "object", hasType |-> FALSE, type |-> NoName,
     hasName |-> TRUE, name |-> "Notes", hasProperties |-> TRUE,
     properties |-> properties]

InvalidFile(properties) ==
    [json |-> TRUE, content |-> "invalid", hasType |-> FALSE, type |-> NoName,
     hasName |-> FALSE, name |-> NoName, hasProperties |-> FALSE,
     properties |-> properties]

NonObjectFile(properties) ==
    [json |-> TRUE, content |-> "other", hasType |-> FALSE, type |-> NoName,
     hasName |-> FALSE, name |-> NoName, hasProperties |-> FALSE,
     properties |-> properties]

ObjectFile(hasType, type, hasName, name, hasProperties, properties) ==
    [json |-> TRUE, content |-> "object", hasType |-> hasType, type |-> type,
     hasName |-> hasName, name |-> name, hasProperties |-> hasProperties,
     properties |-> properties]

EmptyPipeline == Pipeline(FALSE, <<>>, FALSE, <<>>)

\* Scenario 1's Child: x is required, y defaults to "foo".
ChildPipeline ==
    Pipeline(TRUE, <<Required("x"), Optional("y", JsonStr("foo"))>>, FALSE, <<>>)

\* Another document named Child: no parameters, and it calls Parent back.
ChildCallingParent ==
    Pipeline(FALSE, <<>>, TRUE,
             <<ExecutePipeline("CallParent", "Parent", FALSE, <<>>)>>)

ParentPipeline ==
    Pipeline(FALSE, <<>>, TRUE,
             <<OtherActivity("Pause", "Wait"),
               ExecutePipeline("CallGhost", "Ghost", TRUE, [x |-> JsonInt("1")]),
               ExecutePipeline("CallChild", "Child", TRUE, [y |-> JsonStr("foo")])>>)

\* A pipeline that invokes itself, supplying its own required parameter.
LoopPipeline ==
    Pipeline(TRUE, <<Required("x")>>, TRUE,
             <<ExecutePipeline("CallSelf", "Loop", TRUE, [x |-> JsonInt("1")])>>)

PipelineFiles ==
    << NotJsonFile(LoopPipeline),
       InvalidFile(EmptyPipeline),
       NonObjectFile(EmptyPipeline),
       ObjectFile(TRUE, TriggerType, TRUE, "Child", TRUE, LoopPipeline),
       ObjectFile(TRUE, PipelineType, FALSE, NoName, TRUE, ChildPipeline),
       ObjectFile(FALSE, NoName, TRUE, "Child", FALSE, EmptyPipeline),
       ObjectFile(TRUE, PipelineType, TRUE, "Child", TRUE, ChildPipeline),
       ObjectFile(FALSE, NoName, TRUE, "Child", TRUE, ChildCallingParent),
       ObjectFile(TRUE, PipelineType, TRUE, "Parent", TRUE, ParentPipeline),
       ObjectFile(TRUE, PipelineType, TRUE, "Loop", TRUE, LoopPipeline) >>

EmptyTrigger == Trigger(FALSE, <<>>)

\* Scenario 3's trigger.
GhostTrigger == Trigger(TRUE, <<Binding("Ghost", FALSE, <<>>)>>)

BusyTrigger ==
    Trigger(TRUE, <<Binding("Ghost", TRUE, [x |-> JsonInt("1")]),
                    Binding("Child", FALSE, <<>>),
                    Binding("Child", TRUE, [x |-> JsonInt("1"), y |-> JsonStr("foo")])>>)

CleanTrigger ==
    Trigger(TRUE, <<Binding("Loop", TRUE, [x |-> JsonInt("1"), z |-> JsonInt("1")])>>)

TriggerFiles ==
    << InvalidFile(EmptyTrigger),
       NonObjectFile(EmptyTrigger),
       ObjectFile(TRUE, PipelineType, TRUE, "T", TRUE, GhostTrigger),
       ObjectFile(TRUE, TriggerType, TRUE, "T", TRUE, GhostTrigger),
       ObjectFile(FALSE, NoName, TRUE, "Busy", TRUE, BusyTrigger),
       ObjectFile(TRUE, TriggerType, TRUE, "Idle", TRUE, EmptyTrigger),
       ObjectFile(TRUE, TriggerType, TRUE, "Clean", TRUE, CleanTrigger) >>

\* The directories of at most max files drawn from a list of files, and the
\* directory that does not exist.
Directories(files, max) ==
    {[exists |-> FALSE, files |-> <<>>]}
    \cup {[exists |-> TRUE, files |-> [i \in DOMAIN sel |-> files[sel[i]]]] :
            sel \in UNION {[1..n -> 1..Len(files)] : n \in 0..max}}

\* The state of main before its first statement.
InitMain ==
    /\ pc = "load"
    /\ pipelines = <<>>
    /\ triggers = <<>>
    /\ idx = 1
    /\ trigger_issues = <<>>
    /\ all_issues = <<>>
    /\ output = <<>>

Init ==
    /\ InitMain
    /\ pipelineDir \in Directories(PipelineFiles, MaxPipelineFiles)
    /\ triggerDir \in Directories(TriggerFiles, MaxTriggerFiles)

Next ==
    \/ Load
    \/ ValidatePipeline
    \/ ValidateTriggers
    \/ PrintResults

Spec == Init /\ [][Next]_vars

\* main runs to its end: the process always takes its next step.
FairSpec == Spec /\ WF_vars(Next)

(***************************************************************************)
(* One call site, every declaration: Child declares at most MaxParams of   *)
(* the names x, y, z; Parent's activity CallChild supplies any subset of   *)
(* the names, and trigger T binds Child with the same parameters and one   *)
(* of them added, or changed to a value whose string form no default has.  *)
(***************************************************************************)
Names == {"x", "y", "z"}
DefaultValues == {JsonInt("5"), JsonStr("True")}
SuppliedValues == {JsonInt("5"), JsonStr("5"), JsonBool("true")}
OtherValue == JsonStr("7")

ParamSpecs ==
    {Required(n) : n \in Names}
    \cup {Optional(n, d) : n \in Names, d \in DefaultValues}

Declarations ==
    {s \in UNION {[1..n -> ParamSpecs] : n \in 0..MaxParams} :
        \A i, j \in DOMAIN s : i # j => s[i].name # s[j].name}

Supplied == UNION {[S -> SuppliedValues] : S \in SUBSET Names}

PipelineDocument(name, pipeline) ==
    ObjectFile(TRUE, PipelineType, TRUE, name, TRUE, pipeline)

TriggerDocument(name, trigger) ==
    ObjectFile(TRUE, TriggerType, TRUE, name, TRUE, trigger)

Directory(files) == [exists |-> TRUE, files |-> files]

InitCall ==
    /\ InitMain
    /\ \E declared \in Declarations, provided \in Supplied, k \in Names :
       \E childHas \in {TRUE} \cup (IF declared = <<>> THEN {FALSE} ELSE {}),
          siteHas \in {TRUE} \cup (IF DOMAIN provided = {} THEN {FALSE} ELSE {}) :
        /\ pipelineDir = Directory(
             <<PipelineDocument("Child", Pipeline(childHas, declared, FALSE, <<>>)),
               PipelineDocument("Parent", Pipeline(FALSE, <<>>, TRUE,
                   <<ExecutePipeline("CallChild", "Child", siteHas, provided)>>))>>)
        /\ triggerDir = Directory(
             <<TriggerDocument("T", Trigger(TRUE,
                   <<Binding("Child", TRUE,
                             [n \in DOMAIN provided \cup {k} |->
                                 IF n = k THEN OtherValue ELSE provided[n]])>>))>>)

SpecCall == InitCall /\ [][Next]_vars

(***************************************************************************)
(* Many call sites, one declaration: Parent holds at most MaxActivities    *)
(* activities and trigger T at most MaxBindings bindings, each of them a   *)
(* call of Scenario 1's Child, of Parent itself or of a pipeline that does *)
(* not exist.                                                              *)
(***************************************************************************)
ActivityNames == <<"a1", "a2", "a3", "a4">>

ActivityKinds ==
    << [type |-> "Wait", referenceName |-> NoName, hasParameters |-> FALSE,
        parameters |-> <<>>],
       [type |-> "ExecutePipeline", referenceName |-> "Ghost", hasParameters |-> TRUE,
        parameters |-> [x |-> JsonInt("1")]],
       [type |-> "ExecutePipeline", referenceName |-> "Child", hasParameters |-> FALSE,
        parameters |-> <<>>],
       [type |-> "ExecutePipeline", referenceName |-> "Child", hasParameters |-> TRUE,
        parameters |-> [x |-> JsonInt("1"), y |-> JsonStr("foo")]],
       [type |-> "ExecutePipeline", referenceName |-> "Child", hasParameters |-> TRUE,
        parameters |-> [y |-> JsonStr("foo")]],
       [type |-> "ExecutePipeline", referenceName |-> "Child", hasParameters |-> TRUE,
        parameters |-> [x |-> JsonInt("1"), y |-> JsonStr("bar")]],
       [type |-> "ExecutePipeline", referenceName |-> "Parent", hasParameters |-> FALSE,
        parameters |-> <<>>] >>

BindingKinds ==
    << Binding("Ghost", FALSE, <<>>),
       Binding("Child", FALSE, <<>>),
       Binding("Child", TRUE, [y |-> JsonStr("foo")]),
       Binding("Child", TRUE, [x |-> JsonInt("1"), z |-> JsonStr("foo")]) >>

Selections(n, max) == UNION {[1..m -> 1..n] : m \in 0..max}

InitSites ==
    /\ InitMain
    /\ \E acts \in Selections(Len(ActivityKinds), MaxActivities),
          binds \in Selections(Len(BindingKinds), MaxBindings) :
        /\ pipelineDir = Directory(
             <<PipelineDocument("Parent", Pipeline(FALSE, <<>>, TRUE,
                   [i \in DOMAIN acts |->
                       [name |-> ActivityNames[i],
                        type |-> ActivityKinds[acts[i]].type,
                        referenceName |-> ActivityKinds[acts[i]].referenceName,
                        hasParameters |-> ActivityKinds[acts[i]].hasParameters,
                        parameters |-> ActivityKinds[acts[i]].parameters]])),
               PipelineDocument("Child", ChildPipeline)>>)
        /\ triggerDir = Directory(
             <<TriggerDocument("T", Trigger(TRUE,
                   [i \in DOMAIN binds |-> BindingKinds[binds[i]]]))>>)

SpecSites == InitSites /\ [][Next]_vars

(***************************************************************************)
(* Vocabulary of the properties.                                           *)
(***************************************************************************)
\* Both checkers have returned.
Checked == pc \in {"print", "done"}

MissingText == "Missing required parameters"
RedundantText == "Redundant parameters matching default values"
NotFoundText == "Child pipeline not found"
TriggerMissingText == "Missing required parameters for pipeline"
TriggerRedundantText == "Redundant parameters matching default values for pipeline"
TriggerNotFoundText == "Pipeline not found for trigger"

Position(declared, n) == CHOOSE k \in 1..Len(declared) : declared[k].name = n

RequiredAndAbsent(d, provided) ==
    ~d.hasDefault /\ d.name \notin DOMAIN provided

DefaultRepeated(d, provided) ==
    /\ d.hasDefault
    /\ d.name \in DOMAIN provided
    /\ str(provided[d.name]) = str(d.defaultValue)

\* list names exactly the declared parameters that satisfy Cond, once each,
\* in the order of declaration.
ListsExactly(list, declared, provided, Cond(_, _)) ==
    /\ \A j \in 1..Len(list) : \E k \in 1..Len(declared) :
            declared[k].name = list[j] /\ Cond(declared[k], provided)
    /\ \A k \in 1..Len(declared) : Cond(declared[k], provided) =>
            \E j \in 1..Len(list) : list[j] = declared[k].name
    /\ \A i, j \in 1..Len(list) :
            i < j => Position(declared, list[i]) < Position(declared, list[j])

Some(declared, provided, Cond(_, _)) ==
    \E k \in 1..Len(declared) : Cond(declared[k], provided)

TargetParameters(site) ==
    pipeline_get_parameters(DictGet(pipelines, site.referenceName))

\* The issues reported for pipeline p, as main recorded them.
PipelineIssues(p) ==
    LET blocks == SelectSeq(all_issues,
                            LAMBDA b : b.type = "Pipeline" /\ b.name = p)
    IN  IF blocks = <<>> THEN <<>> ELSE blocks[1].issues

\* The issues of pipeline p that carry activity name a and the text.
ActivityIssues(p, a, text) ==
    SelectSeq(PipelineIssues(p),
              LAMBDA e : e.activity = a /\ e.issue.text = text)

\* The resolved ExecutePipeline activities of pipeline p named a.
ResolvedActivities(p, a) ==
    SelectSeq(pipeline_get_activities(DictGet(pipelines, p)),
              LAMBDA act : /\ act.type = "ExecutePipeline"
                           /\ act.name = a
                           /\ DictHas(pipelines, act.referenceName))

ActivityNamesOf(p) ==
    LET acts == pipeline_get_activities(DictGet(pipelines, p))
    IN  {acts[i].name : i \in 1..Len(acts)}

\* The issues of trigger t that carry pipeline name n and the text.
BindingIssues(t, n, text) ==
    SelectSeq(trigger_issues,
              LAMBDA e : /\ e.trigger = t
                         /\ e.issue.pipeline = n
                         /\ e.issue.text = text)

\* The bindings of trigger t to pipeline n.
BindingsTo(t, n) ==
    SelectSeq(trigger_get_pipelines(DictGet(triggers, t)),
              LAMBDA b : b.referenceName = n)

TargetsOf(t) ==
    LET bs == trigger_get_pipelines(DictGet(triggers, t))
    IN  {bs[i].referenceName : i \in 1..Len(bs)}

\* issues holds one list per site of sites that has a parameter satisfying
\* Cond, in the order of the sites, and each list is exact.
ReportsExactly(issues, sites, Cond(_, _)) ==
    LET concerned == SelectSeq(sites,
            LAMBDA s : Some(TargetParameters(s), site_get_parameters(s), Cond))
    IN  /\ Len(issues) = Len(concerned)
        /\ \A j \in 1..Len(issues) :
              ListsExactly(issues[j].issue.params,
                           TargetParameters(concerned[j]),
                           site_get_parameters(concerned[j]), Cond)

\* The list reported for a site that is alone: <<>> when no issue was emitted.
Reported(issues) == IF issues = <<>> THEN <<>> ELSE issues[1].issue.params

Without(list, n) == SelectSeq(list, LAMBDA m : m # n)

(***************************************************************************)
(* C1: for every resolved call site, activity or trigger binding, the      *)
(* reported missing list is exactly the declared parameters of the target  *)
(* that have no defaultValue and are not a key of the supplied parameters, *)
(* in declaration order; a missing-parameters issue is emitted if and only *)
(* if that list is not empty; and a site that supplies one more parameter  *)
(* than another reports the other's list without that parameter.           *)
(***************************************************************************)
C1_MissingExact ==
    Checked =>
      /\ \A p \in DictKeys(pipelines) : \A a \in ActivityNamesOf(p) :
            ReportsExactly(ActivityIssues(p, a, MissingText),
                           ResolvedActivities(p, a), RequiredAndAbsent)
      /\ \A t \in DictKeys(triggers) : \A n \in TargetsOf(t) :
            DictHas(pipelines, n) =>
                ReportsExactly(BindingIssues(t, n, TriggerMissingText),
                               BindingsTo(t, n), RequiredAndAbsent)
      /\ \A p \in DictKeys(pipelines) : \A a \in ActivityNamesOf(p) :
         \A t \in DictKeys(triggers) : \A n \in TargetsOf(t) :
            LET sites == ResolvedActivities(p, a)
                binds == BindingsTo(t, n)
            IN  (/\ Len(sites) = 1
                 /\ Len(binds) = 1
                 /\ sites[1].referenceName = n)
                => \A k \in DOMAIN site_get_parameters(binds[1]) :
                     (DOMAIN site_get_parameters(binds[1])
                        = DOMAIN site_get_parameters(sites[1]) \cup {k})
                     => Reported(BindingIssues(t, n, TriggerMissingText))
                          = Without(Reported(ActivityIssues(p, a, MissingText)), k)

\* The activity lacks two required parameters and says so; the binding
\* supplies one of the two and reports the other alone.
C1_Witness ==
    /\ pc = "done"
    /\ DictHas(pipelines, "Parent") /\ DictHas(triggers, "T")
    /\ Len(Reported(ActivityIssues("Parent", "CallChild", MissingText))) = 2
    /\ Len(Reported(BindingIssues("T", "Child", TriggerMissingText))) = 1

(***************************************************************************)
(* C2: for every resolved call site, activity or trigger binding, the      *)
(* reported redundant list is exactly the declared parameters of the       *)
(* target that have a defaultValue, are a key of the supplied parameters   *)
(* and whose supplied value has the string form of the default, in         *)
(* declaration order; a site that differs from another in one supplied     *)
(* value, whose string form is not the default's, reports the other's list *)
(* without that parameter; and a supplied key that the target does not     *)
(* declare appears in no issue of the site.                                *)
(***************************************************************************)
C2_RedundantExact ==
    Checked =>
      /\ \A p \in DictKeys(pipelines) : \A a \in ActivityNamesOf(p) :
            ReportsExactly(ActivityIssues(p, a, RedundantText),
                           ResolvedActivities(p, a), DefaultRepeated)
      /\ \A t \in DictKeys(triggers) : \A n \in TargetsOf(t) :
            DictHas(pipelines, n) =>
                ReportsExactly(BindingIssues(t, n, TriggerRedundantText),
                               BindingsTo(t, n), DefaultRepeated)
      /\ \A p \in DictKeys(pipelines) : \A a \in ActivityNamesOf(p) :
         \A t \in DictKeys(triggers) : \A n \in TargetsOf(t) :
            LET sites == ResolvedActivities(p, a)
                binds == BindingsTo(t, n)
                before == site_get_parameters(sites[1])
                after == site_get_parameters(binds[1])
                declared == TargetParameters(binds[1])
            IN  (/\ Len(sites) = 1
                 /\ Len(binds) = 1
                 /\ sites[1].referenceName = n
                 /\ DOMAIN before = DOMAIN after)
                => \A k \in DOMAIN after :
                     (/\ \A m \in DOMAIN after \ {k} : after[m] = before[m]
                      /\ \E d \in 1..Len(declared) :
                            /\ declared[d].name = k
                            /\ declared[d].hasDefault
                            /\ str(after[k]) # str(declared[d].defaultValue))
                     => Reported(BindingIssues(t, n, TriggerRedundantText))
                          = Without(Reported(ActivityIssues(p, a, RedundantText)), k)
      /\ \A p \in DictKeys(pipelines) : \A a \in ActivityNamesOf(p) :
            LET sites == ResolvedActivities(p, a)
            IN  Len(sites) = 1 =>
                  \A k \in DOMAIN site_get_parameters(sites[1]) :
                    (\A d \in 1..Len(TargetParameters(sites[1])) :
                        TargetParameters(sites[1])[d].name # k)
                    => \A j \in 1..Len(PipelineIssues(p)) :
                         PipelineIssues(p)[j].activity = a =>
                           /\ PipelineIssues(p)[j].issue.pipeline # k
                           /\ \A i \in 1..Len(PipelineIssues(p)[j].issue.params) :
                                PipelineIssues(p)[j].issue.params[i] # k
      /\ \A t \in DictKeys(triggers) : \A n \in TargetsOf(t) :
            LET binds == BindingsTo(t, n)
            IN  (Len(binds) = 1 /\ DictHas(pipelines, n)) =>
                  \A k \in DOMAIN site_get_parameters(binds[1]) :
                    (\A d \in 1..Len(TargetParameters(binds[1])) :
                        TargetParameters(binds[1])[d].name # k)
                    => \A j \in 1..Len(trigger_issues) :
                         (trigger_issues[j].trigger = t
                          /\ trigger_issues[j].issue.pipeline = n) =>
                           \A i \in 1..Len(trigger_issues[j].issue.params) :
                                trigger_issues[j].issue.params[i] # k

\* The activity repeats two defaults, one of them in a value of another type
\* than the default (the string "5" for the number 5, or the boolean true for
\* the string "True"), and supplies a name that Child does not declare; the
\* binding changes one of the two values and reports the other alone.
C2_Witness ==
    /\ pc = "done"
    /\ DictHas(pipelines, "Parent") /\ DictHas(triggers, "T")
    /\ Len(ResolvedActivities("Parent", "CallChild")) = 1
    /\ LET site == ResolvedActivities("Parent", "CallChild")[1]
           provided == site_get_parameters(site)
           declared == TargetParameters(site)
       IN  /\ \E k \in DOMAIN provided :
                \A d \in 1..Len(declared) : declared[d].name # k
           /\ \E d \in 1..Len(declared) :
                /\ declared[d].hasDefault
                /\ declared[d].name \in DOMAIN provided
                /\ provided[declared[d].name] # declared[d].defaultValue
                /\ str(provided[declared[d].name]) = str(declared[d].defaultValue)
    /\ Len(Reported(ActivityIssues("Parent", "CallChild", RedundantText))) = 2
    /\ Len(Reported(BindingIssues("T", "Child", TriggerRedundantText))) = 1

ActivitiesOf(p) == pipeline_get_activities(DictGet(pipelines, p))

BindingsOf(t) == trigger_get_pipelines(DictGet(triggers, t))

IssuesNaming(p, a) == SelectSeq(PipelineIssues(p), LAMBDA e : e.activity = a)

\* How many issues a call site must get.
IssuesDue(site) ==
    IF ~DictHas(pipelines, site.referenceName) THEN 1
    ELSE (IF Some(TargetParameters(site), site_get_parameters(site), RequiredAndAbsent)
          THEN 1 ELSE 0)
         + (IF Some(TargetParameters(site), site_get_parameters(site), DefaultRepeated)
            THEN 1 ELSE 0)

RECURSIVE SumDue(_)
SumDue(sites) == IF sites = <<>> THEN 0 ELSE IssuesDue(Head(sites)) + SumDue(Tail(sites))

IssuesOfTrigger(t, n) ==
    SelectSeq(trigger_issues, LAMBDA e : e.trigger = t /\ e.issue.pipeline = n)

(***************************************************************************)
(* C3: an ExecutePipeline activity, or a trigger binding, whose target is  *)
(* not a key of the pipeline table gets exactly one unresolved-reference   *)
(* issue that names the unknown pipeline and no other issue, and every     *)
(* later activity or binding of the same subject is still checked.         *)
(***************************************************************************)
C3_UnresolvedReference ==
    Checked =>
      /\ \A p \in DictKeys(pipelines) : \A i \in 1..Len(ActivitiesOf(p)) :
            LET acts == ActivitiesOf(p)
            IN  (/\ acts[i].type = "ExecutePipeline"
                 /\ ~DictHas(pipelines, acts[i].referenceName))
                => /\ IssuesNaming(p, acts[i].name)
                        = <<[activity |-> acts[i].name,
                             issue |-> [text |-> NotFoundText,
                                        pipeline |-> acts[i].referenceName,
                                        params |-> <<>>]]>>
                   /\ \A j \in (i + 1)..Len(acts) :
                        acts[j].type = "ExecutePipeline" =>
                          Len(IssuesNaming(p, acts[j].name)) = IssuesDue(acts[j])
      /\ \A t \in DictKeys(triggers) : \A i \in 1..Len(BindingsOf(t)) :
            LET binds == BindingsOf(t)
                n == binds[i].referenceName
            IN  ~DictHas(pipelines, n)
                => /\ Len(IssuesOfTrigger(t, n)) = Len(BindingsTo(t, n))
                   /\ \A j \in 1..Len(IssuesOfTrigger(t, n)) :
                        IssuesOfTrigger(t, n)[j].issue
                          = [text |-> TriggerNotFoundText, pipeline |-> n,
                             params |-> <<>>]
                   /\ \A j \in (i + 1)..Len(binds) :
                        Len(IssuesOfTrigger(t, binds[j].referenceName))
                          = SumDue(BindingsTo(t, binds[j].referenceName))

\* Parent's first activity and T's first binding name a pipeline that does
\* not exist, and the second of each, a call of Child, gets its issues.
C3_Witness ==
    /\ pc = "done"
    /\ DictHas(pipelines, "Parent") /\ DictHas(triggers, "T")
    /\ Len(ActivitiesOf("Parent")) >= 2
    /\ ActivitiesOf("Parent")[1].type = "ExecutePipeline"
    /\ ActivitiesOf("Parent")[1].referenceName = "Ghost"
    /\ ActivitiesOf("Parent")[2].referenceName = "Child"
    /\ Len(IssuesNaming("Parent", ActivitiesOf("Parent")[1].name)) = 1
    /\ Len(IssuesNaming("Parent", ActivitiesOf("Parent")[2].name)) = 2
    /\ Len(BindingsOf("T")) >= 2
    /\ BindingsOf("T")[1].referenceName = "Ghost"
    /\ BindingsOf("T")[2].referenceName = "Child"
    /\ Len(IssuesOfTrigger("T", "Ghost")) = 1
    /\ Len(IssuesOfTrigger("T", "Child")) = 2

ActivityIndex(p, a) == CHOOSE i \in 1..Len(ActivitiesOf(p)) : ActivitiesOf(p)[i].name = a

HowMany(site, Cond(_, _)) ==
    Cardinality({k \in 1..Len(TargetParameters(site)) :
                    Cond(TargetParameters(site)[k], site_get_parameters(site))})

(***************************************************************************)
(* C9: the issues of a pipeline follow the order of its activities: the    *)
(* issues of an activity come before those of every later activity, an     *)
(* activity has at most the missing-parameters issue followed by the       *)
(* redundant-parameters issue, each with the full list of names; only      *)
(* ExecutePipeline activities have issues, so that a pipeline without one, *)
(* and a trigger without bindings, has none.                               *)
(***************************************************************************)
C9_IssueOrder ==
    Checked =>
      /\ \A p \in DictKeys(pipelines) :
            LET found == PipelineIssues(p)
                acts == ActivitiesOf(p)
            IN  /\ \A j \in 1..Len(found) : \E i \in 1..Len(acts) :
                      /\ acts[i].name = found[j].activity
                      /\ acts[i].type = "ExecutePipeline"
                /\ \A j, k \in 1..Len(found) : j < k =>
                      \/ ActivityIndex(p, found[j].activity)
                           < ActivityIndex(p, found[k].activity)
                      \/ /\ found[j].activity = found[k].activity
                         /\ found[j].issue.text = MissingText
                         /\ found[k].issue.text = RedundantText
                /\ \A j \in 1..Len(found) :
                      LET site == acts[ActivityIndex(p, found[j].activity)]
                      IN  /\ found[j].issue.text = MissingText =>
                                Len(found[j].issue.params)
                                  = HowMany(site, RequiredAndAbsent)
                          /\ found[j].issue.text = RedundantText =>
                                Len(found[j].issue.params)
                                  = HowMany(site, DefaultRepeated)
                /\ (\A i \in 1..Len(acts) : acts[i].type # "ExecutePipeline")
                      => found = <<>>
      /\ \A t \in DictKeys(triggers) :
            BindingsOf(t) = <<>> =>
                \A j \in 1..Len(trigger_issues) : trigger_issues[j].trigger # t

\* Parent's first activity lacks x and repeats the default of y: its two
\* issues, in that order, come before the issue of the second activity.
C9_Witness ==
    /\ pc = "done"
    /\ DictHas(pipelines, "Parent")
    /\ Len(PipelineIssues("Parent")) >= 3
    /\ PipelineIssues("Parent")[1].activity = "a1"
    /\ PipelineIssues("Parent")[1].issue.text = MissingText
    /\ PipelineIssues("Parent")[2].activity = "a1"
    /\ PipelineIssues("Parent")[2].issue.text = RedundantText
    /\ PipelineIssues("Parent")[3].activity = "a2"

HeaderText == "\n{type} '{name}':"
DetailText == "  {detail}"

HeadersOf(type, name) ==
    {i \in 1..Len(output) : /\ output[i].text = HeaderText
                            /\ output[i].type = type
                            /\ output[i].name = name}

\* The details printed under the header at position h.
DetailsUnder(h) ==
    LET n == CHOOSE n \in 0..(Len(output) - h) :
                /\ \A i \in 1..n : output[h + i].text = DetailText
                /\ h + n = Len(output) \/ output[h + n + 1].text # DetailText
    IN  [i \in 1..n |-> output[h + i].detail[1]]

MessagesOfTrigger(t) ==
    LET found == SelectSeq(trigger_issues, LAMBDA e : e.trigger = t)
    IN  [i \in 1..Len(found) |-> found[i].issue]

(***************************************************************************)
(* C4: in the report every pipeline and every trigger that has an issue    *)
(* appears under exactly one header, followed by one line for each of its  *)
(* issues in the order the checker produced them.                          *)
(***************************************************************************)
C4_OneBlockPerSubject ==
    pc = "done" =>
      /\ \A p \in DictKeys(pipelines) :
            IF PipelineIssues(p) = <<>>
            THEN HeadersOf("Pipeline", p) = {}
            ELSE /\ Cardinality(HeadersOf("Pipeline", p)) = 1
                 /\ \A h \in HeadersOf("Pipeline", p) :
                        DetailsUnder(h) = PipelineIssues(p)
      /\ \A t \in DictKeys(triggers) :
            IF MessagesOfTrigger(t) = <<>>
            THEN HeadersOf("Trigger", t) = {}
            ELSE /\ Cardinality(HeadersOf("Trigger", t)) = 1
                 /\ \A h \in HeadersOf("Trigger", t) :
                        DetailsUnder(h) = MessagesOfTrigger(t)

(***************************************************************************)
(* C5: there is no fatal condition: whatever the two directories hold, no  *)
(* run of main ends in an exception that nothing catches.                  *)
(***************************************************************************)
C5_NoFatalCondition == pc # "raised"

HoldsNonObject(directory) ==
    /\ directory.exists
    /\ \E i \in 1..Len(directory.files) :
          directory.files[i].json /\ directory.files[i].content = "other"

Accepted(file, expected_type) ==
    /\ file.json
    /\ file.content = "object"
    /\ ~file.hasType \/ file.type = expected_type
    /\ file.hasName
    /\ file.hasProperties

TableHolds(table, directory, expected_type) ==
    LET files == directory.files
        good == {i \in 1..Len(files) : Accepted(files[i], expected_type)}
    IN  /\ DictKeys(table) = {files[i].name : i \in good}
        /\ \A i \in good :
              (\A j \in good : j > i => files[j].name # files[i].name)
              => DictGet(table, files[i].name) = files[i].properties

(***************************************************************************)
(* C6: a file that does not parse, has another type than the expected one  *)
(* or lacks name or properties is skipped and the other files of the       *)
(* directory are still processed: once load_resources is over, the table   *)
(* of each kind holds exactly the names of the documents of its directory  *)
(* that have no type field or the expected one and both name and           *)
(* properties, each name with the properties of the last such document,    *)
(* wherever the other files stand in the directory.                        *)
(***************************************************************************)
C6_BadFilesSkipped ==
    pc # "load" =>
      /\ TableHolds(pipelines, pipelineDir, PipelineType)
      /\ TableHolds(triggers, triggerDir, TriggerType)

\* What does hold: the tables are those of C6 whenever load_resources returns,
\* that is unless a document that is not a JSON object made it raise.
LoadedTablesHold ==
    /\ pc = "raised" => HoldsNonObject(pipelineDir) \/ HoldsNonObject(triggerDir)
    /\ pc \notin {"load", "raised"} =>
          /\ TableHolds(pipelines, pipelineDir, PipelineType)
          /\ TableHolds(triggers, triggerDir, TriggerType)

NoIssueDue ==
    /\ \A p \in DictKeys(pipelines) : \A i \in 1..Len(ActivitiesOf(p)) :
          ActivitiesOf(p)[i].type = "ExecutePipeline"
            => IssuesDue(ActivitiesOf(p)[i]) = 0
    /\ \A t \in DictKeys(triggers) : \A i \in 1..Len(BindingsOf(t)) :
          IssuesDue(BindingsOf(t)[i]) = 0

(***************************************************************************)
(* C7: main prints "No validation issues found." if and only if no         *)
(* activity call site and no trigger binding has an unresolved, missing or *)
(* redundant issue; otherwise it prints "Validation issues found:" and the *)
(* issue blocks after it. Without any pipeline or trigger the message is   *)
(* the clean one; a trigger bound to a pipeline that does not exist makes  *)
(* the run report issues.                                                  *)
(***************************************************************************)
C7_CleanIffNoIssue ==
    pc = "done" =>
      /\ output = <<CleanLine>> <=> NoIssueDue
      /\ ~NoIssueDue =>
            /\ Len(output) >= 3
            /\ output[1] = FoundLine
            /\ output[2].text = HeaderText
            /\ output[Len(output)].text = DetailText
            /\ \A i \in 2..Len(output) : output[i].text \in {HeaderText, DetailText}
      /\ (pipelines = <<>> /\ triggers = <<>>) => output = <<CleanLine>>

\* Scenario 3: no pipeline at all, and a trigger bound to Ghost.
C7_Witness ==
    /\ pc = "done"
    /\ pipelines = <<>>
    /\ \E t \in DictKeys(triggers) :
          /\ Len(BindingsOf(t)) = 1
          /\ BindingsOf(t)[1].referenceName = "Ghost"
    /\ output[1] = FoundLine

ExecuteActivitiesOf(p) ==
    SelectSeq(ActivitiesOf(p), LAMBDA a : a.type = "ExecutePipeline")

(***************************************************************************)
(* C8: a directory that does not exist gives an empty table for its kind   *)
(* and raises nothing, and the other kind is still checked: without        *)
(* trigger/ every pipeline gets the issues of its activities and there is  *)
(* no trigger issue; without pipeline/ every trigger binding is reported   *)
(* as an unresolved reference.                                             *)
(***************************************************************************)
C8_MissingDirectory ==
    /\ pc = "raised" => HoldsNonObject(pipelineDir) \/ HoldsNonObject(triggerDir)
    /\ (pc # "load" /\ ~pipelineDir.exists) => pipelines = <<>>
    /\ (pc # "load" /\ ~triggerDir.exists) => triggers = <<>>
    /\ (Checked /\ ~triggerDir.exists) =>
          /\ trigger_issues = <<>>
          /\ \A i \in 1..Len(all_issues) : all_issues[i].type = "Pipeline"
          /\ \A p \in DictKeys(pipelines) :
                Len(PipelineIssues(p)) = SumDue(ExecuteActivitiesOf(p))
    /\ (Checked /\ ~pipelineDir.exists) =>
          /\ \A i \in 1..Len(all_issues) : all_issues[i].type = "Trigger"
          /\ \A t \in DictKeys(triggers) :
                MessagesOfTrigger(t)
                  = [i \in 1..Len(BindingsOf(t)) |->
                        [text |-> TriggerNotFoundText,
                         pipeline |-> BindingsOf(t)[i].referenceName,
                         params |-> <<>>]]

\* pipeline/ does not exist and the trigger's bindings, one of them to Child,
\* are all reported unresolved.
C8_Witness ==
    /\ pc = "done"
    /\ ~pipelineDir.exists
    /\ pipelines = <<>>
    /\ \E t \in DictKeys(triggers) : "Child" \in TargetsOf(t)
    /\ Len(trigger_issues) >= 2

(***************************************************************************)
(* C10: the check terminates whatever the references, cycles included:     *)
(* once the tables are loaded main reaches its end, each step of the loop  *)
(* over the pipelines going to the next pipeline, and the two tables never *)
(* change after the load.                                                  *)
(***************************************************************************)
C10_Terminates ==
    /\ [][pc # "load" => (pipelines' = pipelines /\ triggers' = triggers)]_vars
    /\ [][(pc = "validate_pipelines" /\ pc' = "validate_pipelines")
            => idx' = idx + 1]_vars
    /\ (pc = "validate_pipelines") ~> (pc = "done")

Calls(p, q) ==
    \E i \in 1..Len(ActivitiesOf(p)) :
        /\ ActivitiesOf(p)[i].type = "ExecutePipeline"
        /\ ActivitiesOf(p)[i].referenceName = q

\* Child calls Parent, Parent calls Child, and main is over.
C10_Witness ==
    /\ pc = "done"
    /\ DictHas(pipelines, "Child") /\ DictHas(pipelines, "Parent")
    /\ Calls("Child", "Parent")
    /\ Calls("Parent", "Child")

====
